---- MODULE Spec2Model ----
(***************************************************************************)
(* mpprogress: one process publishes the progress of a counted task into a *)
(* fixed-size record in a memory-mapped file "mpprogress.<name>.tmp" of    *)
(* the temp directory; other processes poll that file.                     *)
(*                                                                         *)
(* Modelled from src/mpprogress/mpprogress.py (NameProvider, ProgressInfo, *)
(* ProgressView, MultiprocessedProgress) and src/test/test.py (the polling *)
(* loop server_read_sub).                                                  *)
(*                                                                         *)
(* Representation.                                                         *)
(*  - A string is a sequence of one-character strings, so that             *)
(*    "{}{}".format(base, i) is a concatenation.                           *)
(*  - A datetime is a number of clock ticks; an optional datetime is <<t>> *)
(*    or <<>> (None).                                                      *)
(*  - update_time_average is an exact fraction <<num, den>>, den > 0.      *)
(*  - The bytes of a file are kept per item of the struct format: a cell   *)
(*    is either the placeholder bytes b" " that initialize() wrote (pad)   *)
(*    or the packed value. The native long and double decoded from         *)
(*    placeholder bytes do not fit the model's integers, so a decoded      *)
(*    integer stays a cell.                                                *)
(*  - The producer process is single threaded: at most one call of it is   *)
(*    in progress (variable call). Observers run between its steps.        *)
(***************************************************************************)
EXTENDS Integers, Sequences, FiniteSets, TLC

\* ------------------------------------------------------------ bounds
\* Largest count and max_value a producer uses.
MaxCount == 1
\* min_value ranges over -MaxNeg .. 0.
MaxNeg == 1
\* The clock stops advancing after MaxClock ticks.
MaxClock == 1
\* Ticks per calendar day.
DayTicks == 2
\* Direct calls on main_name_provider.
MaxRegCalls == 4
\* finish()/__exit__ calls per handle.
MaxAttempts == 2
\* update() calls per handle.
MaxUpdates == 2

\* ------------------------------------------------------------ program constants
\* struct.calcsize("@illlidididd") with the native 8-byte long and alignment.
RecordSize == 88
\* range(1000) in NameProvider.get_name.
SuffixLimit == 1000
\* The int unpacked from four placeholder bytes b" " (0x20202020).
PadInt == 538976288
\* datetime.max.toordinal(): fromordinal raises ValueError outside 1..MaxOrdinal.
MaxOrdinal == 3652059

Handles == {1, 2}
Views == {1, 2}
BaseNames == {<<"x">>}
\* The name every observer view is opened on.
ViewName == <<"x">>
\* Sizes a file can have while the flush of initialize() is under way.
PartialSizes == {1}

None == <<>>
Some(x) == <<x>>

\* ------------------------------------------------------------ helpers
RECURSIVE GCD(_, _)
GCD(a, b) == IF b = 0 THEN a ELSE GCD(b, a % b)

Abs(a) == IF a < 0 THEN -a ELSE a

\* A fraction in lowest terms with a positive denominator.
Norm(n, d) ==
    LET g == GCD(Abs(n), Abs(d))
        s == IF d < 0 THEN -1 ELSE 1
    IN  <<(s * n) \div g, (s * d) \div g>>

Zero == <<0, 1>>

\* str(i) for i >= 0.
RECURSIVE Digits(_)
Digits(i) ==
    LET d == <<"0", "1", "2", "3", "4", "5", "6", "7", "8", "9">>[(i % 10) + 1]
    IN  IF i < 10 THEN <<d>> ELSE Digits(i \div 10) \o <<d>>

\* get_temp_path: os.path.join(tempdir, "mpprogress.{}.tmp".format(name)).
get_temp_path(name) == <<"mpprogress.">> \o name \o <<".tmp">>

\* timedelta_seconds: delta.seconds + delta.microseconds / 1000000; the days
\* of the (normalised) timedelta are not counted.
timedelta_seconds(delta) == delta % DayTicks

\* to_time_pair: (ordinal of the day, seconds since that day's midnight).
to_time_pair(dt) == <<(dt \div DayTicks) + 1, timedelta_seconds(dt - (dt \div DayTicks) * DayTicks)>>

\* from_time_pair rejecting a valid pair: a ValueError also for a time of
\* day past midnight.
from_time_pair_strict(ordinal, seconds) ==
    IF ordinal < 1 \/ ordinal > MaxOrdinal \/ seconds > 0
    THEN [err |-> "ValueError", value |-> None]
    ELSE [err |-> "none", value |-> None]

\* from_time_pair: builds the datetime and falls off the end, returning None;
\* datetime.fromordinal raises ValueError for an ordinal outside 1..MaxOrdinal.
from_time_pair(ordinal, seconds) ==
    IF ordinal < 1 \/ ordinal > MaxOrdinal
    THEN [err |-> "ValueError", value |-> None]
    ELSE [err |-> "none", value |-> None]

\* ------------------------------------------------------------ NameProvider
\* "{}{}".format(base_name, i)
Suffixed(base_name, i) == base_name \o Digits(i)

\* get_name that does not look into the table.
get_name_unchecked(name_table, base_name) ==
    [err |-> "none", name |-> base_name, table |-> name_table \cup {base_name}]

\* get_name whose loop has no end: past the last candidate it goes on to
\* base1000.
get_name_unbounded(name_table, base_name) ==
    IF base_name \notin name_table
    THEN [err |-> "none", name |-> base_name, table |-> name_table \cup {base_name}]
    ELSE LET free == {k \in 0..SuffixLimit : Suffixed(base_name, k) \notin name_table}
             i == CHOOSE k \in free : \A j \in free : k <= j
             name == Suffixed(base_name, i)
         IN  [err |-> "none", name |-> name, table |-> name_table \cup {name}]

\* get_name with the suffixes tried from 1: range(1, 1000).
get_name_from_one(name_table, base_name) ==
    IF base_name \notin name_table
    THEN [err |-> "none", name |-> base_name, table |-> name_table \cup {base_name}]
    ELSE IF \E i \in 1..(SuffixLimit - 1) : Suffixed(base_name, i) \notin name_table
    THEN LET i == CHOOSE k \in 1..(SuffixLimit - 1) :
                    /\ Suffixed(base_name, k) \notin name_table
                    /\ \A j \in 1..(k - 1) : Suffixed(base_name, j) \in name_table
             name == Suffixed(base_name, i)
         IN  [err |-> "none", name |-> name, table |-> name_table \cup {name}]
    ELSE [err |-> "RuntimeError", name |-> <<>>, table |-> name_table]

\* NameProvider.get_name on the set name_table: the name returned (or the
\* RuntimeError) and the table afterwards.
get_name(name_table, base_name) ==
    IF base_name \notin name_table
    THEN [err |-> "none", name |-> base_name, table |-> name_table \cup {base_name}]
    ELSE IF \E i \in 0..(SuffixLimit - 1) : Suffixed(base_name, i) \notin name_table
    THEN LET i == CHOOSE k \in 0..(SuffixLimit - 1) :
                    /\ Suffixed(base_name, k) \notin name_table
                    /\ \A j \in 0..(k - 1) : Suffixed(base_name, j) \in name_table
             name == Suffixed(base_name, i)
         IN  [err |-> "none", name |-> name, table |-> name_table \cup {name}]
    ELSE [err |-> "RuntimeError", name |-> <<>>, table |-> name_table]

\* erase_name that discards nothing.
erase_name_nothing(name_table, name) == name_table

\* NameProvider.erase_name: set.discard.
erase_name(name_table, name) == name_table \ {name}

\* ------------------------------------------------------------ ProgressInfo
\* ProgressInfo.__init__ at clock reading now.
NewInfo(now) ==
    [closed |-> 0, min_value |-> 0, max_value |-> 0, count |-> 0,
     start_time |-> Some(now), last_update |-> Some(now), now_update |-> Some(now),
     update_time_average |-> Zero]

\* avg + (time_diff / proceed_count - avg) / count, count # 0, proceed_count > 0.
IncrementalMean(avg, time_diff, proceed_count, count) ==
    Norm(avg[1] * proceed_count * count + time_diff * avg[2] - avg[1] * proceed_count,
         proceed_count * avg[2] * count)

\* ProgressInfo._get_time_diff: a TypeError when a timestamp is None.
TimeDiff(info) ==
    IF info.now_update = None \/ info.last_update = None
    THEN [err |-> "TypeError", value |-> 0]
    ELSE [err |-> "none", value |-> timedelta_seconds(info.now_update[1] - info.last_update[1])]

\* update_value without the assignment self.count = count.
update_value_stale(info, count, now) ==
    [err |-> "none",
     info |-> [info EXCEPT !.last_update = info.now_update, !.now_update = Some(now)]]

\* update_value revising the average whenever the count moved:
\* if proceed_count != 0.
update_value_revising(info, count, now) ==
    LET last_count == info.count
        moved == [info EXCEPT !.last_update = info.now_update,
                              !.count = count,
                              !.now_update = Some(now)]
        proceed_count == count - last_count
        time_diff == TimeDiff(moved)
    IN  IF time_diff.err # "none" THEN [err |-> time_diff.err, info |-> moved]
        ELSE IF proceed_count = 0 THEN [err |-> "none", info |-> moved]
        ELSE IF count = 0 THEN [err |-> "ZeroDivisionError", info |-> moved]
        ELSE [err |-> "none",
              info |-> [moved EXCEPT !.update_time_average =
                            IncrementalMean(info.update_time_average, time_diff.value,
                                            proceed_count, count)]]

\* ProgressInfo.update_value at clock reading now: the error raised (if any)
\* and the record as the call leaves it. The assignments made before the
\* division stay when it raises.
update_value(info, count, now) ==
    LET last_count == info.count
        moved == [info EXCEPT !.last_update = info.now_update,
                              !.count = count,
                              !.now_update = Some(now)]
        proceed_count == count - last_count
        time_diff == TimeDiff(moved)
    IN  IF time_diff.err # "none" THEN [err |-> time_diff.err, info |-> moved]
        ELSE IF proceed_count <= 0 THEN [err |-> "none", info |-> moved]
        ELSE IF count = 0 THEN [err |-> "ZeroDivisionError", info |-> moved]
        ELSE [err |-> "none",
              info |-> [moved EXCEPT !.update_time_average =
                            IncrementalMean(info.update_time_average, time_diff.value,
                                            proceed_count, count)]]

\* ProgressInfo._get_percentage on a record whose integers are set: the
\* quotient, or the ZeroDivisionError of a division by a total of 0.
percentage(info) ==
    IF info.max_value - info.min_value = 0
    THEN [err |-> "ZeroDivisionError", value |-> Zero]
    ELSE [err |-> "none",
          value |-> Norm(100 * (info.count - info.min_value),
                         info.max_value - info.min_value)]

\* ProgressInfo._get_elapsed: a TypeError when a timestamp is None.
elapsed(info) ==
    IF info.now_update = None \/ info.start_time = None
    THEN [err |-> "TypeError", value |-> 0]
    ELSE [err |-> "none", value |-> timedelta_seconds(info.now_update[1] - info.start_time[1])]

\* ProgressInfo.close
close(info) == [info EXCEPT !.closed = 1]

\* ------------------------------------------------------------ bytes
\* The items of the format "@illlidididd"; an (ordinal, seconds) pair is one
\* item: the decoder reads the seconds only to build a value it discards.
Fields == {"closed", "min_value", "max_value", "count",
           "start_time", "last_update", "now_update", "update_time_average"}
TimeFields == {"start_time", "last_update", "now_update"}

V(x) == [pad |-> FALSE, v |-> x]
\* The item as initialize() left it: placeholder bytes.
PadCell(f) ==
    [pad |-> TRUE,
     v |-> IF f \in TimeFields THEN <<0, 0>>
           ELSE IF f = "update_time_average" THEN Zero ELSE 0]
PadCells == [f \in Fields |-> PadCell(f)]

\* ProgressInfo.calc_byte_length
calc_byte_length == RecordSize

\* dump_to_bytes packing the count still to go, max_value + min_value - count,
\* in the place of count.
dump_to_bytes_remaining(info) ==
    [f \in Fields |->
        IF f \in TimeFields THEN V(to_time_pair(info[f][1]))
        ELSE IF f = "count" THEN V(info.max_value + info.min_value - info.count)
        ELSE V(info[f])]

\* ProgressInfo.dump_to_bytes (the timestamps of a producer's record are set).
dump_to_bytes(info) ==
    [f \in Fields |->
        IF f \in TimeFields THEN V(to_time_pair(info[f][1]))
        ELSE V(info[f])]

\* The ordinal struct.unpack yields for a timestamp item, and its seconds
\* (the double of placeholder bytes is about 6e-154: no seconds).
OrdinalOf(cell) == IF cell.pad THEN PadInt ELSE cell.v[1]
SecondsOf(cell) == IF cell.pad THEN 0 ELSE cell.v[2]

\* ProgressInfo.load_from_bytes on a buffer of size bytes: struct.error for
\* a buffer of another length than the format's, ValueError from
\* from_time_pair, else the loaded record, whose timestamps are what
\* from_time_pair returned.
load_from_bytes(size, cells) ==
    LET st == from_time_pair(OrdinalOf(cells["start_time"]), SecondsOf(cells["start_time"]))
        lu == from_time_pair(OrdinalOf(cells["last_update"]), SecondsOf(cells["last_update"]))
        nu == from_time_pair(OrdinalOf(cells["now_update"]), SecondsOf(cells["now_update"]))
    IN  IF size # calc_byte_length THEN [err |-> "struct.error", info |-> <<>>]
        ELSE IF st.err # "none" THEN [err |-> st.err, info |-> <<>>]
        ELSE IF lu.err # "none" THEN [err |-> lu.err, info |-> <<>>]
        ELSE IF nu.err # "none" THEN [err |-> nu.err, info |-> <<>>]
        ELSE [err |-> "none",
              info |-> <<[closed |-> cells["closed"],
                          min_value |-> cells["min_value"],
                          max_value |-> cells["max_value"],
                          count |-> cells["count"],
                          start_time |-> st.value,
                          last_update |-> lu.value,
                          now_update |-> nu.value,
                          update_time_average |-> cells["update_time_average"]]>>]

\* ------------------------------------------------------------ files
\* The temp directory is a function from the paths that exist to files; a
\* file is its size and its bytes.
EmptyFile == [size |-> 0, cells |-> PadCells]

Put(fs, path, file) ==
    [q \in (DOMAIN fs) \cup {path} |-> IF q = path THEN file ELSE fs[q]]

\* os.remove left out.
RemoveNothing(fs, path) == fs

\* os.remove of an existing path.
Remove(fs, path) == [q \in (DOMAIN fs) \ {path} |-> fs[q]]

\* open(path, mode): "rb" and "r+b" need the file; "wb" ("w+b") creates it
\* or truncates it.
OpenFile(fs, path, mode) ==
    IF mode \in {"wb", "w+b"} THEN [err |-> "none", fs |-> Put(fs, path, EmptyFile)]
    ELSE IF path \in DOMAIN fs THEN [err |-> "none", fs |-> fs]
    ELSE [err |-> "FileNotFoundError", fs |-> fs]

\* mmap.mmap(fileno, 0): ValueError for an empty file.
Mmap(file) == IF file.size = 0 THEN "ValueError" ELSE "none"

\* ------------------------------------------------------------ ProgressView
\* get opening the file with the mode of initialize.
GetOpenModeWrite == "wb"
\* The mode of open() in ProgressView.get.
GetOpenMode == "rb"
\* The mode of open() in ProgressView.update.
UpdateOpenMode == "r+b"

\* ProgressView.get: what the call returns ("none", a "record") or that it
\* "raise"s, and the directory as it leaves it. OSError and ValueError are
\* caught; struct.error is a subclass of neither.
get(fs, path) ==
    LET o == OpenFile(fs, path, GetOpenMode)
        file == o.fs[path]
        l == load_from_bytes(file.size, file.cells)
    IN  IF o.err # "none" THEN [kind |-> "none", err |-> "none", info |-> <<>>, fs |-> o.fs]
        ELSE IF Mmap(file) # "none"
        THEN [kind |-> "none", err |-> "none", info |-> <<>>, fs |-> o.fs]
        ELSE IF l.err = "ValueError"
        THEN [kind |-> "none", err |-> "none", info |-> <<>>, fs |-> o.fs]
        ELSE IF l.err # "none"
        THEN [kind |-> "raise", err |-> l.err, info |-> <<>>, fs |-> o.fs]
        ELSE [kind |-> "record", err |-> "none", info |-> l.info, fs |-> o.fs]

\* ProgressView.exists
exists(fs, path) == path \in DOMAIN fs

\* ProgressView.update up to the mapping of the file: the error raised, or
\* "none" when mm.write can start. mm.write raises ValueError when the
\* mapping is shorter than the record.
view_update(writable, fs, path) ==
    LET o == OpenFile(fs, path, UpdateOpenMode)
    IN  IF ~writable THEN [err |-> "ValueError", fs |-> fs]
        ELSE IF o.err # "none" THEN [err |-> o.err, fs |-> o.fs]
        ELSE IF Mmap(o.fs[path]) # "none" THEN [err |-> "ValueError", fs |-> o.fs]
        ELSE IF o.fs[path].size < calc_byte_length THEN [err |-> "ValueError", fs |-> o.fs]
        ELSE [err |-> "none", fs |-> o.fs]

\* delete without the check of writable.
delete_unchecked(writable, fs, path) ==
    IF path \notin DOMAIN fs THEN [err |-> "FileNotFoundError", fs |-> fs]
    ELSE [err |-> "none", fs |-> Remove(fs, path)]

\* ProgressView.delete
delete(writable, fs, path) ==
    IF ~writable THEN [err |-> "ValueError", fs |-> fs]
    ELSE IF path \notin DOMAIN fs THEN [err |-> "FileNotFoundError", fs |-> fs]
    ELSE [err |-> "none", fs |-> Remove(fs, path)]

\* ProgressView.__exit__
view_exit(writable, fs, path) ==
    IF writable THEN delete(writable, fs, path) ELSE [err |-> "none", fs |-> fs]

\* ------------------------------------------------------------ state
VARIABLES
    clock,       \* the last reading of datetime.datetime.now(), in ticks
    name_table,  \* main_name_provider.name_table
    handles,     \* the MultiprocessedProgress objects of the producer process
    files,       \* the temp directory
    call,        \* the producer call in progress and how far it got
    last,        \* the producer's last finished call: the count it was to
                 \* publish (arg) and the error it raised
    attempts,    \* per handle, the os.remove calls its interface made
    updates,     \* per handle, the update() calls made on it
    mono,        \* every update so far passed a count >= the record's count
    obs,         \* per observer view, what its get() calls returned so far
    vlast,       \* the last producer-only call made on an observer view:
                 \* whether the file existed then, and the error raised
    loop,        \* server_read_sub: its position and its flags
    reg          \* the last call made on main_name_provider directly: its
                 \* argument, what it returned or raised, and the calls so far

vars == <<clock, name_table, handles, files, call, last, attempts, updates, mono, obs, vlast, loop, reg>>

NoCall == [op |-> "none", h |-> 0, arg |-> 0, stage |-> "none"]

\* The observer views: ProgressView(name), writable=False.
views == [v \in Views |-> [name |-> ViewName, writable |-> FALSE]]

PathOf(h) == get_temp_path(handles[h].name)
ViewPath(v) == get_temp_path(views[v].name)

\* The handle exists and finish() has set closed.
Finished(h) == handles[h].st # "unused" /\ handles[h].info.closed = 1

\* The state of a process that has imported the module, but for
\* main_name_provider.name_table.
InitRest ==
    /\ clock = 0
    /\ handles = [h \in Handles |->
                    [st |-> "unused", name |-> <<>>, writable |-> TRUE, info |-> NewInfo(0)]]
    /\ files = <<>>
    /\ call = NoCall
    /\ last = [op |-> "none", h |-> 0, arg |-> 0, err |-> "none"]
    /\ attempts = [h \in Handles |-> 0]
    /\ updates = [h \in Handles |-> 0]
    /\ mono = TRUE
    /\ obs = [v \in Views |-> [seen |-> None, quiet |-> None, gone |-> FALSE]]
    /\ vlast = [op |-> "none", existed |-> FALSE, err |-> "none"]
    /\ loop = [pc |-> "polling", opened |-> FALSE, closed |-> FALSE, err |-> "none"]
    /\ reg = [op |-> "none", arg |-> <<>>, name |-> <<>>, err |-> "none", n |-> 0]

Init ==
    /\ name_table = {}
    /\ InitRest

\* ------------------------------------------------------------ the producer
\* The readings datetime.now() can give after the reading clock, up to the
\* reading until: time does not run backwards.
Now(until) == clock..until

\* MultiprocessedProgress.__init__ up to the open() of initialize(): the name
\* is allocated, the view and the record are built, and open(path, "wb")
\* creates the file, empty (the 88 placeholder bytes sit in the buffer of
\* the file object until it is closed).
StartOpen(h, base, min_value, max_value, now) ==
    /\ call = NoCall
    /\ clock' = now
    /\ handles[h].st = "unused"
    /\ \A g \in Handles : g < h => handles[g].st # "unused"
    /\ LET r == get_name(name_table, base)
           info == [NewInfo(now) EXCEPT !.min_value = min_value,
                                          !.max_value = max_value,
                                          !.count = min_value]
           o == OpenFile(files, get_temp_path(r.name), "wb")
       IN  IF r.err # "none"
           THEN /\ last' = [op |-> "start", h |-> h, arg |-> min_value, err |-> r.err]
                /\ UNCHANGED <<name_table, handles, files, call>>
           ELSE /\ name_table' = r.table
                /\ handles' = [handles EXCEPT ![h] =
                        [st |-> "starting", name |-> r.name, writable |-> TRUE, info |-> info]]
                /\ files' = o.fs
                /\ call' = [op |-> "start", h |-> h, arg |-> min_value, stage |-> "fill"]
                /\ UNCHANGED last
    /\ UNCHANGED <<attempts, updates, mono, obs, vlast, loop, reg>>

\* The close of initialize() flushes the placeholder bytes: in one write,
\* or a short write first and the rest after it. Once the file is full,
\* __init__ goes on to interface.update(self.info).
InitializeFlush(size) ==
    /\ call.stage = "fill"
    /\ LET path == PathOf(call.h)
           filled == Put(files, path, [size |-> size, cells |-> PadCells])
           u == view_update(handles[call.h].writable, filled, path)
       IN  /\ files[path].size < size
           /\ size < calc_byte_length => files[path].size = 0
           /\ IF size < calc_byte_length
              THEN /\ files' = filled
                   /\ UNCHANGED <<call, last>>
              ELSE /\ files' = u.fs
                   /\ IF u.err = "none"
                      THEN /\ call' = [call EXCEPT !.stage = "copy"]
                           /\ UNCHANGED last
                      ELSE /\ call' = NoCall
                           /\ last' = [op |-> call.op, h |-> call.h, arg |-> call.arg,
                                       err |-> u.err]
    /\ UNCHANGED <<clock, name_table, handles, attempts, updates, mono, obs, vlast, loop, reg>>

\* mm.write(progress.dump_to_bytes()) copies the record into the shared
\* mapping. The copy is not atomic for a reader in another process: the
\* items reach the mapping one at a time, in no fixed order.
CopyField(f) ==
    /\ call.stage = "copy"
    /\ LET path == PathOf(call.h)
           target == dump_to_bytes(handles[call.h].info)
       IN  /\ files[path].cells[f] # target[f]
           /\ files' = [files EXCEPT ![path].cells[f] = target[f]]
    /\ UNCHANGED <<clock, name_table, handles, call, last, attempts, updates, mono, obs, vlast, loop, reg>>

\* The copy is complete: ProgressView.update returns, and with it
\* __init__ or MultiprocessedProgress.update.
Return ==
    /\ call.stage = "copy"
    /\ files[PathOf(call.h)].cells = dump_to_bytes(handles[call.h].info)
    /\ call' = NoCall
    /\ last' = [op |-> call.op, h |-> call.h, arg |-> call.arg, err |-> "none"]
    /\ handles' = [handles EXCEPT ![call.h].st = "active"]
    /\ UNCHANGED <<clock, name_table, files, attempts, updates, mono, obs, vlast, loop, reg>>

\* MultiprocessedProgress.update up to the mapping of the file:
\* info.update_value(count), then the checks and the open() of
\* interface.update. Nothing in it looks at info.closed.
Update(h, count, now) ==
    /\ call = NoCall
    /\ clock' = now
    /\ handles[h].st = "active"
    /\ updates[h] < MaxUpdates
    /\ updates' = [updates EXCEPT ![h] = @ + 1]
    /\ LET r == update_value(handles[h].info, count, now)
           u == view_update(handles[h].writable, files, PathOf(h))
       IN  /\ handles' = [handles EXCEPT ![h].info = r.info]
           /\ mono' = (mono /\ count >= handles[h].info.count)
           /\ IF r.err # "none"
              THEN /\ last' = [op |-> "update", h |-> h, arg |-> count, err |-> r.err]
                   /\ UNCHANGED <<files, call>>
              ELSE /\ files' = u.fs
                   /\ IF u.err # "none"
                      THEN /\ last' = [op |-> "update", h |-> h, arg |-> count, err |-> u.err]
                           /\ UNCHANGED call
                      ELSE /\ call' = [op |-> "update", h |-> h, arg |-> count, stage |-> "copy"]
                           /\ UNCHANGED last
    /\ UNCHANGED <<name_table, attempts, obs, vlast, loop, reg>>

\* MultiprocessedProgress.finish: interface.delete(), then info.close().
\* When delete raises, close is not reached.
finish(h, op) ==
    /\ call = NoCall
    /\ handles[h].st = "active"
    /\ attempts[h] < MaxAttempts
    /\ LET d == delete(handles[h].writable, files, PathOf(h))
       IN  /\ files' = d.fs
           /\ handles' = [handles EXCEPT ![h].info =
                            IF d.err = "none" THEN close(@) ELSE @]
           /\ last' = [op |-> op, h |-> h, arg |-> 0, err |-> d.err]
    /\ attempts' = [attempts EXCEPT ![h] = @ + 1]
    /\ UNCHANGED <<clock, name_table, call, updates, mono, obs, vlast, loop, reg>>

Finish(h) == finish(h, "finish")

\* MultiprocessedProgress.__exit__: self.finish(), whatever ended the body.
Exit(h) == finish(h, "exit")

\* main_name_provider.erase_name(name), "called when the progress
\* completed": the caller erases names of no handle that is still running.
EraseName(name) ==
    /\ call = NoCall
    /\ name \in name_table
    /\ \A h \in Handles : (handles[h].st # "unused" /\ handles[h].name = name) => Finished(h)
    /\ name_table' = erase_name(name_table, name)
    /\ UNCHANGED <<clock, handles, files, call, last, attempts, updates, mono, obs, vlast, loop, reg>>

\* ------------------------------------------------------------ the registry
\* The names passed to main_name_provider directly.
RegNames == {<<"x">>, <<"x", "0">>, <<"x", "1">>}

\* The table in which base and every candidate base0 .. base999 is allocated.
FullTable(base) == {base} \cup {Suffixed(base, i) : i \in 0..(SuffixLimit - 1)}

\* main_name_provider.get_name(base), called by the process itself.
GetName(base) ==
    /\ call = NoCall
    /\ reg.n < MaxRegCalls
    /\ LET r == get_name(name_table, base)
       IN  /\ name_table' = r.table
           /\ reg' = [op |-> "get_name", arg |-> base, name |-> r.name, err |-> r.err,
                      n |-> reg.n + 1]
    /\ UNCHANGED <<clock, handles, files, call, last, attempts, updates, mono, obs, vlast, loop>>

\* main_name_provider.erase_name(name), called by the process itself with
\* any name; set.discard raises nothing.
Erase(name) ==
    /\ call = NoCall
    /\ reg.n < MaxRegCalls
    /\ name_table' = erase_name(name_table, name)
    /\ reg' = [op |-> "erase_name", arg |-> name, name |-> <<>>, err |-> "none",
               n |-> reg.n + 1]
    /\ UNCHANGED <<clock, handles, files, call, last, attempts, updates, mono, obs, vlast, loop>>

\* ------------------------------------------------------------ observers
\* A producer is copying a record into the file at path.
Overlapping(path) == call.stage = "copy" /\ PathOf(call.h) = path

\* A call of ProgressView.get on view v. seen is the count of the last
\* record it returned, quiet the count of the last record it returned
\* while no copy into the file was under way, gone whether it has returned
\* None after a record. An exception leaves the caller nothing.
Get(v) ==
    /\ LET r == get(files, ViewPath(v))
       IN  /\ files' = r.fs
           /\ obs' = [obs EXCEPT ![v] =
                IF r.kind = "record"
                THEN [seen |-> Some(r.info[1].count),
                      quiet |-> IF Overlapping(ViewPath(v)) THEN @.quiet
                                ELSE Some(r.info[1].count),
                      gone |-> @.gone]
                ELSE IF r.kind = "none"
                THEN [@ EXCEPT !.gone = (@ \/ obs[v].seen # None)]
                ELSE @]
    /\ UNCHANGED <<clock, name_table, handles, call, last, attempts, updates, mono, vlast, loop, reg>>

\* A call of ProgressView.exists on view v: it returns exists(files, path).
Exists(v) ==
    /\ exists(files, ViewPath(v)) \in BOOLEAN
    /\ UNCHANGED vars

\* ProgressView.update called on the observer view v.
ViewUpdate(v) ==
    /\ LET u == view_update(views[v].writable, files, ViewPath(v))
       IN  /\ files' = u.fs
           /\ vlast' = [op |-> "update", existed |-> exists(files, ViewPath(v)), err |-> u.err]
    /\ UNCHANGED <<clock, name_table, handles, call, last, attempts, updates, mono, obs, loop, reg>>

\* ProgressView.delete called on the observer view v.
ViewDelete(v) ==
    /\ LET d == delete(views[v].writable, files, ViewPath(v))
       IN  /\ files' = d.fs
           /\ vlast' = [op |-> "delete", existed |-> exists(files, ViewPath(v)), err |-> d.err]
    /\ UNCHANGED <<clock, name_table, handles, call, last, attempts, updates, mono, obs, loop, reg>>

\* Leaving the with-block of the observer view v: ProgressView.__exit__.
ViewExit(v) ==
    /\ LET d == view_exit(views[v].writable, files, ViewPath(v))
       IN  /\ files' = d.fs
           /\ vlast' = [op |-> "exit", existed |-> exists(files, ViewPath(v)), err |-> d.err]
    /\ UNCHANGED <<clock, name_table, handles, call, last, attempts, updates, mono, obs, loop, reg>>

\* ------------------------------------------------------------ server_read_sub
\* The values the print of server_read_sub formats, in its order:
\* relative_count, total_count, percentage (a division by total_count),
\* elapsed (now_update - start_time), eta. The error the first failing one
\* raises.
Report(info) ==
    IF info.max_value = info.min_value THEN "ZeroDivisionError"
    ELSE IF info.now_update = None \/ info.start_time = None THEN "TypeError"
    ELSE "none"

\* One round of the loop of server_read_sub: get(), the print and
\* opened = True for a record, closed = True for a None once opened; the
\* loop is left when both flags are set. An exception ends the thread.
Poll ==
    /\ loop.pc = "polling"
    /\ LET r == get(files, get_temp_path(ViewName))
           shown == IF r.kind = "record" THEN Report(r.info[1]) ELSE "none"
           opened == loop.opened \/ (r.kind = "record" /\ shown = "none")
           closed == loop.closed \/ (r.kind = "none" /\ loop.opened)
       IN  /\ files' = r.fs
           /\ loop' =
                IF r.kind = "raise"
                THEN [loop EXCEPT !.pc = "crashed", !.err = r.err]
                ELSE IF shown # "none"
                THEN [loop EXCEPT !.pc = "crashed", !.err = shown]
                ELSE [pc |-> IF opened /\ closed THEN "done" ELSE "polling",
                      opened |-> opened, closed |-> closed, err |-> "none"]
    /\ UNCHANGED <<clock, name_table, handles, call, last, attempts, updates, mono, obs, vlast, reg>>

\* ------------------------------------------------------------ specifications
\* The calls a producer process makes on the handles H, starting streams
\* with a min_value of Mins and max_value MaxCount and passing update the
\* counts Counts, while its clock reads at most until; and the steps of the
\* call in progress.
Producer(H, Mins, Counts, until) ==
    \/ \E h \in H, base \in BaseNames, min_value \in Mins, now \in Now(until) :
            StartOpen(h, base, min_value, MaxCount, now)
    \/ \E size \in PartialSizes \cup {calc_byte_length} : InitializeFlush(size)
    \/ \E f \in Fields : CopyField(f)
    \/ Return
    \/ \E h \in H, count \in Counts, now \in Now(until) : Update(h, count, now)
    \/ \E h \in H : Finish(h)
    \/ \E h \in H : Exit(h)
    \/ \E name \in name_table : EraseName(name)

\* The calls observers make on their views.
Reads ==
    \/ \E v \in Views : Get(v)
    \/ \E v \in Views : Exists(v)

Misuse ==
    \/ \E v \in Views : ViewUpdate(v)
    \/ \E v \in Views : ViewDelete(v)
    \/ \E v \in Views : ViewExit(v)

Next == Producer({1}, (-MaxNeg)..0, (-MaxNeg)..MaxCount, MaxClock)
Spec == Init /\ [][Next]_vars

ReadNext == Producer({1}, {0}, 0..MaxCount, MaxClock) \/ Reads
ReadSpec == Init /\ [][ReadNext]_vars

MisuseNext == Producer({1}, {0}, 0..MaxCount, MaxClock) \/ Misuse
MisuseSpec == Init /\ [][MisuseNext]_vars

\* A process that runs one stream after the other: a handle is created
\* when every earlier one has finished.
OneAtATime ==
    \A h \in Handles :
        (handles[h].st = "unused" /\ handles'[h].st # "unused")
            => \A g \in Handles : g < h => Finished(g)

RestartNext == Producer(Handles, {0}, 0..MaxCount, 0) /\ OneAtATime
RestartSpec == Init /\ [][RestartNext]_vars

LoopNext == Producer({1}, {0}, 0..MaxCount, MaxClock) \/ Poll

LoopSpec ==
    /\ Init
    /\ [][LoopNext]_vars
    /\ WF_vars(Poll)
    /\ WF_vars((\E size \in PartialSizes \cup {calc_byte_length} : InitializeFlush(size))
                \/ (\E f \in Fields : CopyField(f)) \/ Return)

\* The registry alone, called with the names RegNames, from a table that is
\* empty or that earlier get_name calls have filled for the base "x".
RegInit ==
    /\ name_table \in {{}, FullTable(<<"x">>)}
    /\ InitRest

RegNext ==
    \/ \E base \in RegNames : GetName(base)
    \/ \E name \in RegNames : Erase(name)

RegSpec == RegInit /\ [][RegNext]_vars

\* A process with two handles that can run at the same time, started with
\* the base names NameBases from a table that is empty or full for "x";
\* the name of a finished handle is erased or not.
NameBases == {<<"x">>, <<"x", "0">>}

NameInit == RegInit

NameNext ==
    \/ \E h \in Handles, base \in NameBases : StartOpen(h, base, 0, MaxCount, clock)
    \/ InitializeFlush(calc_byte_length)
    \/ \E f \in Fields : CopyField(f)
    \/ Return
    \/ \E h \in Handles : Finish(h)
    \/ \E h \in Handles : Finished(h) /\ EraseName(handles[h].name)

NameSpec == NameInit /\ [][NameNext]_vars

\* A producer process whose stream has any min_value of -MaxNeg .. 0 and
\* any max_value of 0 .. MaxCount (both default to 0).
RecordNext ==
    \/ \E base \in BaseNames, min_value \in (-MaxNeg)..0, max_value \in 0..MaxCount,
          now \in Now(MaxClock) : StartOpen(1, base, min_value, max_value, now)
    \/ InitializeFlush(calc_byte_length)
    \/ \E f \in Fields : CopyField(f)
    \/ Return
    \/ \E count \in (-MaxNeg)..MaxCount, now \in Now(MaxClock) : Update(1, count, now)
    \/ Finish(1)

RecordSpec == Init /\ [][RecordNext]_vars

\* ------------------------------------------------------------ properties
\* The order of two decoded counts; the long decoded from placeholder bytes,
\* 0x2020202020202020, is above every count a producer publishes.
Leq(c1, c2) == c2.pad \/ (~c1.pad /\ c1.v <= c2.v)

\* C1: between the return of start(name, min_value, max_value) or update(c)
\* on a running handle and the producer's next call, the backing file
\* exists and get() on every observer view of that name returns a record
\* with count = the value just published (min_value after start, c after
\* update(c)), the handle's min_value and max_value, and closed = 0.
C1_PublishedVisible ==
    \A h \in Handles :
        (/\ call = NoCall
         /\ last.h = h
         /\ last.op \in {"start", "update"}
         /\ last.err = "none"
         /\ ~Finished(h))
        => \A v \in Views :
             views[v].name = handles[h].name =>
                LET r == get(files, ViewPath(v))
                IN  /\ exists(files, ViewPath(v))
                    /\ r.kind = "record"
                    /\ r.info[1].count = V(last.arg)
                    /\ r.info[1].min_value = V(handles[h].info.min_value)
                    /\ r.info[1].max_value = V(handles[h].info.max_value)
                    /\ r.info[1].closed = V(0)

\* C1, its case: update(MaxCount) has returned on a running handle whose
\* stream started below MaxCount, and an observer view is open on its name.
C1_UpdateReturned ==
    \E h \in Handles, v \in Views :
        /\ call = NoCall
        /\ last = [op |-> "update", h |-> h, arg |-> MaxCount, err |-> "none"]
        /\ ~Finished(h)
        /\ handles[h].info.min_value < MaxCount
        /\ views[v].name = handles[h].name

\* C2: once finish() has returned on a handle, and for as long as no other
\* producer handle has a stream under its name that is starting or running,
\* the backing file does not exist: exists() is false and get() returns None
\* on every observer view of that name.
C2_FinishedAbsent ==
    \A h \in Handles :
        (/\ Finished(h)
         /\ \A g \in Handles :
                (handles[g].st # "unused" /\ handles[g].name = handles[h].name)
                    => Finished(g))
        => /\ ~exists(files, PathOf(h))
           /\ get(files, PathOf(h)).kind = "none"
           /\ \A v \in Views :
                views[v].name = handles[h].name =>
                    /\ ~exists(files, ViewPath(v))
                    /\ get(files, ViewPath(v)).kind = "none"

\* C2, its case: a stream finished, a second one was started under the same
\* name and finished too, and update() was called on a finished handle
\* since.
C2_FinishedTwice ==
    /\ Finished(1)
    /\ Finished(2)
    /\ handles[1].name = handles[2].name
    /\ handles[1].name = ViewName
    /\ last.op = "update"
    /\ call = NoCall

\* C3: an update(count) on a handle whose finish() has returned fails with
\* AlreadyFinished and leaves the backing file absent.
C3_UpdateAfterFinishRefused ==
    \A h \in Handles :
        (Finished(h) /\ last.h = h /\ last.op = "update")
            => (last.err = "AlreadyFinished" /\ ~exists(files, PathOf(h)))

\* C4: whatever sequence of update, finish and __exit__ runs on a handle,
\* its interface attempts one removal of the backing file at most, and no
\* finish() or __exit__ fails.
C4_DeletedOnce ==
    /\ \A h \in Handles : attempts[h] <= 1
    /\ last.op \in {"finish", "exit"} => last.err = "none"

\* C5: in every state of the backing file get() returns a record or None:
\* it raises nothing, and it returns None when the file is absent.
C5_ReadNeverRaises ==
    \A v \in Views :
        LET r == get(files, ViewPath(v))
        IN  /\ r.kind \in {"none", "record"}
            /\ ~exists(files, ViewPath(v)) => r.kind = "none"

\* C6: a get() or an exists() on an observer view leaves every file as it
\* was (existence, size, contents); a step that changes a file belongs to a
\* producer call: the open of initialize, the flush, the copy of a record,
\* or the delete of finish.
C6_ReadsChangeNoFile ==
    [][/\ (\E v \in Views : Get(v) \/ Exists(v)) => files' = files
       /\ files' # files =>
            \/ call # NoCall
            \/ call' # NoCall
            \/ attempts' # attempts]_vars

\* C6, its case: a get() has returned a record and the file is still there.
C6_RecordRead ==
    \E v \in Views : obs[v].seen # None /\ exists(files, ViewPath(v))

\* C7: update and delete on a view with writable = False raise the
\* ValueError "the view is not writable" and leave every file as it was,
\* and so does leaving the scope of such a view, which raises nothing.
C7_ReadOnlyRefused ==
    [][(\E v \in Views : ViewUpdate(v) \/ ViewDelete(v) \/ ViewExit(v))
        => /\ files' = files
           /\ vlast'.op \in {"update", "delete"} => vlast'.err = "ValueError"
           /\ vlast'.op = "exit" => vlast'.err = "none"]_vars

\* C7, its case: delete was called on a read-only view while the backing
\* file held a record, and was refused.
C7_DeleteRefused ==
    /\ vlast = [op |-> "delete", existed |-> TRUE, err |-> "ValueError"]
    /\ get(files, get_temp_path(ViewName)).kind = "record"

C9_GoneOnlyAfterFinish ==
    \A v \in Views :
        /\ obs[v].gone => \E h \in Handles :
                                handles[h].name = views[v].name /\ Finished(h)
        /\ obs[v].seen = None => ~obs[v].gone

\* C9, its case: an observer view got a record and later None.
C9_Gone ==
    \E v \in Views : obs[v].gone

\* C10: once a producer has started a stream on the polled name and
\* finished it, the loop of server_read_sub eventually ends (opened and
\* closed both set).
C10_LoopEnds ==
    (\E h \in Handles : Finished(h) /\ handles[h].name = ViewName)
        ~> (loop.pc = "done")

\* C11: get_name(base) returns base when base is not allocated, and else
\* base + str(i) for the smallest i in 0..999 whose candidate is not
\* allocated; the table afterwards is the table before plus the name
\* returned.
C11_FirstFreeName ==
    [][(reg'.op = "get_name" /\ reg'.n = reg.n + 1 /\ reg'.err = "none")
        => LET base == reg'.arg
               name == reg'.name
           IN  /\ base \notin name_table => name = base
               /\ base \in name_table =>
                    \E i \in 0..999 :
                        /\ name = base \o Digits(i)
                        /\ name \notin name_table
                        /\ \A j \in 0..(i - 1) : (base \o Digits(j)) \in name_table
               /\ name_table' = name_table \cup {name}]_vars

\* C11, its case: get_name("x") found "x" allocated and returned "x0".
C11_SecondName ==
    /\ reg.op = "get_name"
    /\ reg.arg = <<"x">>
    /\ reg.name = <<"x", "0">>
    /\ reg.err = "none"

\* C13: erase_name(n) raises nothing and leaves n not allocated, so that
\* the next get_name(n) returns n itself; every other name stays as it was,
\* and the table does not change when n was not allocated.
C13_EraseReleases ==
    [][(reg'.op = "erase_name" /\ reg'.n = reg.n + 1)
        => LET n == reg'.arg
               again == get_name(name_table', n)
           IN  /\ reg'.err = "none"
               /\ n \notin name_table'
               /\ again.err = "none" /\ again.name = n
               /\ name_table' \ {n} = name_table \ {n}
               /\ n \notin name_table => name_table' = name_table]_vars

\* C13, its case: "x0", which get_name had allocated beside "x", has been
\* erased and "x" is still allocated.
C13_Erased ==
    /\ reg.op = "erase_name"
    /\ reg.arg = <<"x", "0">>
    /\ reg.n >= 3
    /\ name_table = {<<"x">>}

\* C12: whatever starts and finishes a process has made, two handles that
\* are started and not finished have different names and different
\* backing-file paths, and the name a start gets from get_name was not
\* allocated before and is allocated after.
C12_NamesUnique ==
    [][/\ \A h \in Handles, g \in Handles :
            (/\ h # g
             /\ handles'[h].st # "unused" /\ handles'[h].info.closed = 0
             /\ handles'[g].st # "unused" /\ handles'[g].info.closed = 0)
            => /\ handles'[h].name # handles'[g].name
               /\ get_temp_path(handles'[h].name) # get_temp_path(handles'[g].name)
       /\ \A h \in Handles :
            (handles[h].st = "unused" /\ handles'[h].st # "unused")
            => /\ handles'[h].name \notin name_table
               /\ handles'[h].name \in name_table']_vars

\* C12, its case: two handles run at the same time, the second one started
\* with the base name "x" while the first one held "x".
C12_TwoRunning ==
    /\ handles[1].st = "active" /\ ~Finished(1)
    /\ handles[2].st = "active" /\ ~Finished(2)
    /\ handles[1].name = <<"x">>
    /\ handles[2].name = <<"x", "0">>

\* C14: when base and its candidates base0 .. base999 are all allocated,
\* get_name(base) raises the RuntimeError and leaves the table as it was,
\* and a start with that base raises it too, creates no file and no handle.
C14_Exhausted ==
    [][\A base \in NameBases :
        (/\ base \in name_table
         /\ \A i \in 0..999 : (base \o Digits(i)) \in name_table)
        => /\ get_name(name_table, base) =
                [err |-> "RuntimeError", name |-> <<>>, table |-> name_table]
           /\ \A h \in Handles :
                StartOpen(h, base, 0, MaxCount, clock)
                => /\ last'.op = "start"
                   /\ last'.err = "RuntimeError"
                   /\ name_table' = name_table
                   /\ files' = files
                   /\ handles' = handles
                   /\ call' = NoCall]_vars

\* C14, its case: a start found "x" and all its candidates allocated.
C14_StartRefused ==
    /\ name_table = FullTable(<<"x">>)
    /\ last.op = "start"
    /\ last.err = "RuntimeError"

\* C15: for the record of every handle, load_from_bytes(dump_to_bytes(r))
\* succeeds and gives a record whose stored fields all equal those of r,
\* and elapsed can be computed on it.
C15_RoundTrip ==
    \A h \in Handles :
        handles[h].st # "unused" =>
            LET r == handles[h].info
                l == load_from_bytes(calc_byte_length, dump_to_bytes(r))
            IN  /\ l.err = "none"
                /\ l.info[1].closed = V(r.closed)
                /\ l.info[1].min_value = V(r.min_value)
                /\ l.info[1].max_value = V(r.max_value)
                /\ l.info[1].count = V(r.count)
                /\ l.info[1].update_time_average = V(r.update_time_average)
                /\ l.info[1].start_time = r.start_time
                /\ l.info[1].last_update = r.last_update
                /\ l.info[1].now_update = r.now_update
                /\ elapsed(l.info[1]).err = "none"

\* C16: evaluating percentage on the record of a running handle raises
\* nothing, also when max_value = min_value, and gives
\* 100 * (count - min_value) / (max_value - min_value) when they differ.
C16_PercentageTotal ==
    \A h \in Handles :
        handles[h].st = "active" =>
            LET r == handles[h].info
            IN  /\ percentage(r).err = "none"
                /\ r.max_value # r.min_value =>
                     percentage(r).value[1] * (r.max_value - r.min_value)
                        = 100 * (r.count - r.min_value) * percentage(r).value[2]

\* C17: every update_value(count) moves last_update to the previous
\* now_update and now_update to the clock's reading, and one whose count
\* is not above the record's count leaves update_time_average as it was.
C17_NoAdvanceKeepsAverage ==
    [][\A h \in Handles :
        updates'[h] = updates[h] + 1 =>
            LET old == handles[h].info
                new == handles'[h].info
            IN  /\ new.last_update = old.now_update
                /\ new.now_update = Some(clock')
                /\ new.count <= old.count
                    => new.update_time_average = old.update_time_average]_vars

\* C17, its case: update(0) has returned on a stream started at 0 whose
\* average an earlier update to a higher count had revised.
C17_RegressedAfterAdvance ==
    /\ call = NoCall
    /\ last = [op |-> "update", h |-> 1, arg |-> 0, err |-> "none"]
    /\ handles[1].info.min_value = 0
    /\ handles[1].info.update_time_average # Zero
    /\ updates[1] = 2

\* C19: an update(count) on a running handle with
\* min_value <= count <= max_value returns without error, and then the
\* file and the record in memory both hold that count.
C19_InRangeUpdateSucceeds ==
    \A h \in Handles :
        (/\ call = NoCall
         /\ last.op = "update" /\ last.h = h
         /\ ~Finished(h)
         /\ handles[h].info.min_value <= last.arg
         /\ last.arg <= handles[h].info.max_value)
        => /\ last.err = "none"
           /\ handles[h].info.count = last.arg
           /\ get(files, PathOf(h)).kind = "record"
           /\ get(files, PathOf(h)).info[1].count = V(last.arg)

\* C18: the name of a finished handle is not allocated any longer (unless
\* a later handle runs a stream under it), and a handle started with the
\* same base name after the first one finished gets the same name.
C18_FinishErasesName ==
    /\ \A h \in Handles :
        (/\ Finished(h)
         /\ \A g \in Handles :
                (g # h /\ handles[g].st # "unused") => handles[g].name # handles[h].name)
        => handles[h].name \notin name_table
    /\ (Finished(1) /\ handles[2].st # "unused") => handles[2].name = handles[1].name

\* C20: while initialize() is creating and filling the file get() returns
\* None on every observer view, and no record that get() returns holds an
\* integer decoded from placeholder bytes.
C20_NoPlaceholderRecord ==
    \A v \in Views :
        LET r == get(files, ViewPath(v))
        IN  /\ (call.stage = "fill" /\ PathOf(call.h) = ViewPath(v)) => r.kind = "none"
            /\ r.kind = "record" =>
                \A f \in {"closed", "min_value", "max_value", "count",
                          "update_time_average"} : ~r.info[1][f].pad

====
